---- MODULE Spec2Model ----
(***************************************************************************)
(* xclim climate indices: the run-length indicators of xclim/indices.py    *)
(* (CFD, CFD2, HWI, CSI), the resampling of a daily series into periods,   *)
(* and the day-of-year percentile table (percentile_doy).                  *)
(*                                                                         *)
(* Temperatures are integers in hundredths of a kelvin, so that            *)
(* K2C = 273.15 K is exact.  A daily series is a sequence indexed 1..n;    *)
(* the code's 0-based position of entry i is i - 1.  A float that may be   *)
(* NaN is <<>> (NaN) or <<v>>.                                             *)
(***************************************************************************)
EXTENDS Integers, Sequences, FiniteSets, TLC

(* series:  the daily input series (tasmin, tasmax, tas or arr)            *)
(* t0:      the calendar day of its first timestamp, 0 = 1st of January   *)
(* call:    the function called and its arguments                         *)
(* applied: what xr.apply_ufunc computed on each period inside func       *)
(* result:  the value the call returned                                   *)
(* raised:  the exception the call raised, "" when it returned            *)
VARIABLES series, t0, call, applied, result, raised

vars == <<series, t0, call, applied, result, raised>>

----------------------------------------------------------------------------
(* Bounds of the model *)

MaxDays == 5
DaysPerMonth == 2
MonthsPerYear == 2
MaxWindow == 3
MaxDoyDays == 5
MaxGapDays == 7
MaxGridDays == 3
MaxGSLDays == 6
MaxTNDays == 4
MaxConvDays == 2
GSLRunDays == 2

YearLen == DaysPerMonth * MonthsPerYear

(* Program constant, in hundredths of a kelvin *)
K2C == 27315

Temps == {K2C - 100, K2C, K2C + 100}
Threshes == {-1, 0}
Freqs == {"YS", "MS", "AS-JUL"}
Windows == 1..MaxWindow

(* Windows that violate the contract of the run statistics *)
BadWindows == {-1, 0}

(* The quantiles per = 1/10 (the default) and 1/2, as <<numerator, denominator>> *)
Pers == {<<1, 10>>, <<1, 2>>}

(* The quantiles 0 and 1, and -1/10 and 11/10 beyond them *)
EdgePers == {<<0, 1>>, <<1, 1>>}
OutPers == {<<-1, 10>>, <<11, 10>>}

NaN == <<>>
IsNaN(v) == v = <<>>
Val(v) == v[1]

SeqsUpTo(S, n) == UNION {[1..k -> S] : k \in 0..n}

----------------------------------------------------------------------------
(* Small helpers *)

SetMax(S) == CHOOSE m \in S : \A s \in S : s <= m
SetMin(S) == CHOOSE m \in S : \A s \in S : m <= s

RECURSIVE SeqSum(_)
SeqSum(s) == IF s = <<>> THEN 0 ELSE Head(s) + SeqSum(Tail(s))

(* The k-th smallest element of a finite set of integers *)
Kth(S, k) == CHOOSE i \in S : Cardinality({j \in S : j < i}) = k - 1

(* The entries of x at the positions S, in time order *)
Take(x, S) == [k \in 1..Cardinality(S) |-> x[Kth(S, k)]]

----------------------------------------------------------------------------
(* Calendar and resampling.  Day i of the series is calendar day t0 + i - 1 *)
(* counted from the 1st of January of year 0.                               *)

AbsDay(i) == t0 + i - 1

(* time.dayofyear, 1-based *)
dayofyear(i) == (AbsDay(i) % YearLen) + 1

(* The first day of the second half of the year: the anchor of 'AS-JUL' *)
JulStart == (MonthsPerYear \div 2) * DaysPerMonth

(* The label of the period that x.resample(time=freq) puts day i in *)
PeriodOf(freq, i) ==
    CASE freq = "YS" -> AbsDay(i) \div YearLen
      [] freq = "MS" -> AbsDay(i) \div DaysPerMonth
      [] freq = "AS-JUL" -> (AbsDay(i) + YearLen - JulStart) \div YearLen

(* Mutant: a period closed on both sides, which also takes the first day *)
(* of the next period                                                    *)
GroupDaysClosedBoth(freq, T, p) ==
    {i \in T : PeriodOf(freq, i) = p \/ (i - 1 \in T /\ PeriodOf(freq, i - 1) = p)}

(* The days of the timestamps T that fall in period p *)
GroupDays(freq, T, p) == {i \in T : PeriodOf(freq, i) = p}

(* The period labels of a resampling of the timestamps T *)
Periods(freq, T) == {PeriodOf(freq, i) : i \in T}

----------------------------------------------------------------------------
(* run_length (rl): the run-length engine *)

(* One left-to-right scan; open is the length of the currently open run *)
RECURSIVE rle_scan(_, _, _, _)
rle_scan(x, i, open, runs) ==
    LET closed == IF open > 0
                  THEN Append(runs, [start |-> i - 1 - open, len |-> open])
                  ELSE runs
    IN  IF i > Len(x) THEN closed
        ELSE IF x[i] THEN rle_scan(x, i + 1, open + 1, runs)
        ELSE rle_scan(x, i + 1, 0, closed)

(* Mutant: the run still open at the end of the sequence is not closed *)
RECURSIVE rle_scan_no_flush(_, _, _, _)
rle_scan_no_flush(x, i, open, runs) ==
    IF i > Len(x) THEN runs
    ELSE IF x[i] THEN rle_scan_no_flush(x, i + 1, open + 1, runs)
    ELSE rle_scan_no_flush(x, i + 1, 0,
            IF open > 0
            THEN Append(runs, [start |-> i - 1 - open, len |-> open])
            ELSE runs)

rle_no_flush(x) == rle_scan_no_flush(x, 1, 0, <<>>)

(* RunLengthAnalyzer: the ordered runs of True, start 0-based *)
rle(x) == rle_scan(x, 1, 0, <<>>)

(* Mutant: the length of the first run *)
longest_run_first(x) == IF rle(x) = <<>> THEN 0 ELSE rle(x)[1].len

(* rl.longest_run: the length of the longest run, 0 without runs *)
longest_run(x) ==
    IF rle(x) = <<>> THEN 0
    ELSE SetMax({rle(x)[k].len : k \in DOMAIN rle(x)})

Qualifying(x, window) == SelectSeq(rle(x), LAMBDA r : r.len >= window)

(* rl.windowed_run_count (run_day_count): the days in runs of >= window *)
windowed_run_count(x, window) ==
    SeqSum([k \in DOMAIN Qualifying(x, window) |-> Qualifying(x, window)[k].len])

(* Mutants: runs longer than window only; runs of exactly window only *)
run_event_count_strict(x, window) ==
    Len(SelectSeq(rle(x), LAMBDA r : r.len > window))

run_event_count_exact(x, window) ==
    Len(SelectSeq(rle(x), LAMBDA r : r.len = window))

(* run_event_count: the number of runs of >= window *)
run_event_count(x, window) == Len(Qualifying(x, window))

(* Mutant: the end of the first run, whatever its length *)
first_run_end_position_any(x, window) ==
    IF rle(x) = <<>> THEN NaN ELSE <<rle(x)[1].start + rle(x)[1].len - 1>>

(* The 0-based index of the last entry of the first run of at least     *)
(* window entries; the not-found sentinel is NaN                        *)
first_run_end_position(x, window) ==
    LET q == Qualifying(x, window)
    IN  IF q = <<>> THEN NaN ELSE <<q[1].start + q[1].len - 1>>

(* The 0-based index of the first entry of the last run of at least *)
(* window entries; the not-found sentinel is NaN                    *)
last_run_start_position(x, window) ==
    LET q == Qualifying(x, window)
    IN  IF q = <<>> THEN NaN ELSE <<q[Len(q)].start>>

----------------------------------------------------------------------------
(* Masks *)

(* Mutant: a day at exactly K2C counts as frost *)
FrostMaskInclusive(tasmin) == [i \in DOMAIN tasmin |-> tasmin[i] <= K2C]

(* f = tasmin < K2C *)
FrostMask(tasmin) == [i \in DOMAIN tasmin |-> tasmin[i] < K2C]

(* over = tasmax > K2C + thresh *)
OverMask(tasmax, thresh) == [i \in DOMAIN tasmax |-> tasmax[i] > K2C + 100 * thresh]

(* over = tas < K2C + thresh *)
UnderMask(tas, thresh) == [i \in DOMAIN tas |-> tas[i] < K2C + 100 * thresh]

----------------------------------------------------------------------------
(* The indicators *)

NoCall ==
    [name |-> "none", freq |-> "", window |-> 0, thresh |-> 0, per |-> <<0, 1>>,
     p10 |-> <<>>, method |-> "", ice_thresh |-> <<>>, invalid_values |-> <<>>,
     pr |-> <<>>, rh |-> <<>>, ps |-> 0]

(* What a Python function hands back: None when it ends without a return *)
None == <<>>
Returned(v) == <<v>>

(* group = mask.resample(time=freq): the slice of the mask of each period *)
Resample(mask, freq) ==
    [p \in Periods(freq, DOMAIN mask) |-> Take(mask, GroupDays(freq, DOMAIN mask, p))]

(* Mutant: a period without timestamps is given the value 0 *)
RestoreEmptyGroupsZero(combined) ==
    LET P == DOMAIN combined
        full == IF P = {} THEN {} ELSE SetMin(P)..SetMax(P)
    IN  IF full = P THEN combined
        ELSE [p \in full |-> IF p \in P THEN <<combined[p]>> ELSE <<0>>]

(* The groups of a resampling are the periods that hold a timestamp; the *)
(* combined values are reindexed on every period from the first to the   *)
(* last, which makes them floats and puts NaN at a period without        *)
(* timestamps                                                            *)
RestoreEmptyGroups(combined) ==
    LET P == DOMAIN combined
        full == IF P = {} THEN {} ELSE SetMin(P)..SetMax(P)
    IN  IF full = P THEN combined
        ELSE [p \in full |-> IF p \in P THEN <<combined[p]>> ELSE NaN]

(* group.apply(func) calls func on every slice and combines the values; *)
(* a None has no dims, and combining raises AttributeError              *)
Combine(returned) ==
    IF \E p \in DOMAIN returned : returned[p] = None
    THEN [value |-> <<>>, raised |-> "AttributeError"]
    ELSE [value |-> RestoreEmptyGroups([p \in DOMAIN returned |-> returned[p][1]]),
          raised |-> ""]

(* CFD2.func: return xr.apply_ufunc(rl.longest_run, x, ...) *)
CFD2_func(x) == Returned(longest_run(x))

(* CFD2: the mask is resampled, then rl.longest_run runs on each period *)
CFD2(tasmin, freq) ==
    LET group == Resample(FrostMask(tasmin), freq)
    IN  Combine([p \in DOMAIN group |-> CFD2_func(group[p])])

(* The contract of the run statistics on their qualifying threshold: a *)
(* window <= 0 is rejected by the statistic it is handed to              *)
(* Mutant: only a negative window is rejected *)
ValidWindowNonNegative(window) == window >= 0

ValidWindow(window) == window >= 1

(* xr.apply_ufunc(rl.windowed_run_count, x, ..., kwargs={'window': window}) *)
(* inside HWI.func and CSI.func                                             *)
(* Mutant: the ufunc of CFD2 in the place of rl.windowed_run_count *)
HWI_ufunc_longest_run(x, window) == longest_run(x)

HWI_ufunc(x, window) == windowed_run_count(x, window)

CSI_ufunc(x, window) == windowed_run_count(x, window)

(* HWI.func and CSI.func evaluate the ufunc and drop its value: they have *)
(* no return statement                                                    *)
HWI_func(x, window) ==
    LET dropped == HWI_ufunc(x, window) IN None

CSI_func(x, window) ==
    LET dropped == CSI_ufunc(x, window) IN None

(* HWI and CSI hand window to the statistic unchecked: the rejection of *)
(* the statistic, raised in the first call of func, ends group.apply    *)
HWI(tasmax, thresh, window, freq) ==
    LET group == Resample(OverMask(tasmax, thresh), freq)
    IN  IF ~ValidWindow(window)
        THEN [value |-> <<>>, raised |-> "ContractViolation"]
        ELSE Combine([p \in DOMAIN group |-> HWI_func(group[p], window)])

CSI(tas, thresh, window, freq) ==
    LET group == Resample(UnderMask(tas, thresh), freq)
    IN  IF ~ValidWindow(window)
        THEN [value |-> <<>>, raised |-> "ContractViolation"]
        ELSE Combine([p \in DOMAIN group |-> CSI_func(group[p], window)])

(* FD: f = (tasmin < K2C) * 1 *)
FD_f(tasmin) == [i \in DOMAIN tasmin |-> IF tasmin[i] < K2C THEN 1 ELSE 0]

(* Mutant: the first day of each period is left out of its sum *)
ResampleSumOpenLeft(f, freq) ==
    [p \in Periods(freq, DOMAIN f) |->
        LET days == GroupDays(freq, DOMAIN f, p)
        IN  SeqSum(Take(f, days \ {SetMin(days)}))]

(* f.resample(time=freq).sum(dim='time') *)
ResampleSum(f, freq) ==
    [p \in Periods(freq, DOMAIN f) |-> SeqSum(Take(f, GroupDays(freq, DOMAIN f, p)))]

FD(tasmin, freq) == ResampleSum(FD_f(tasmin), freq)

(* cooling_degree_days: cdd = (tas > K2C + thresh) * 1 *)
cooling_degree_days_cdd(tas, thresh) ==
    [i \in DOMAIN tas |-> IF tas[i] > K2C + 100 * thresh THEN 1 ELSE 0]

(* return cdd.resample(time=freq).sum(dim='time') *)
cooling_degree_days(tas, thresh, freq) ==
    ResampleSum(cooling_degree_days_cdd(tas, thresh), freq)

(* TN10p.  p10 is a table from day-of-year to a float, as percentile_doy *)
(* returns it                                                            *)

(* Mutant: the table is read at the position of the day in the series *)
TN10p_below_by_position(tasmin, p10) ==
    [i \in DOMAIN tasmin |->
        LET doy == ((i - 1) % YearLen) + 1
        IN  /\ doy \in DOMAIN p10
            /\ ~IsNaN(p10[doy])
            /\ tasmin[i] < Val(p10[doy])]

(* tasmin.groupby('time.dayofyear') < p10: each day is compared with the *)
(* entry of its day-of-year; without an entry, or with NaN, it is False  *)
TN10p_below(tasmin, p10) ==
    [i \in DOMAIN tasmin |->
        /\ dayofyear(i) \in DOMAIN p10
        /\ ~IsNaN(p10[dayofyear(i)])
        /\ tasmin[i] < Val(p10[dayofyear(i)])]

(* (...).resample(time=freq).sum(dim='time') *)
TN10p(tasmin, p10, freq) ==
    LET below == TN10p_below(tasmin, p10)
    IN  ResampleSum([i \in DOMAIN below |-> IF below[i] THEN 1 ELSE 0], freq)

(* CFD: runs are measured on the whole series, then resampled *)

(* ind: the 0-based position of each day *)
CFD_ind(tasmin) == [i \in DOMAIN tasmin |-> i - 1]

(* d = ind.where(tasmin > K2C) *)
CFD_where(tasmin) ==
    [i \in DOMAIN tasmin |-> IF tasmin[i] > K2C THEN <<CFD_ind(tasmin)[i]>> ELSE NaN]

(* b = d.bfill(dim='time'): a NaN takes the following valid value *)
bfill(d) ==
    [i \in DOMAIN d |->
        LET later == {j \in DOMAIN d : j >= i /\ ~IsNaN(d[j])}
        IN  IF later = {} THEN NaN ELSE d[SetMin(later)]]

(* b.diff(dim='time') - 1, labelled by the later of the two days *)
diff_minus_1(b) ==
    [i \in (DOMAIN b) \ {1} |->
        IF IsNaN(b[i]) \/ IsNaN(b[i - 1]) THEN NaN
        ELSE <<Val(b[i]) - Val(b[i - 1]) - 1>>]

(* d.resample(time=freq).max(dim='time'): NaN is skipped, an all-NaN  *)
(* period gives NaN                                                   *)
ResampleMax(d, freq) ==
    [p \in Periods(freq, DOMAIN d) |->
        LET vals == {Val(d[i]) : i \in {j \in GroupDays(freq, DOMAIN d, p) : ~IsNaN(d[j])}}
        IN  IF vals = {} THEN NaN ELSE <<SetMax(vals)>>]

CFD(tasmin, freq) == ResampleMax(diff_minus_1(bfill(CFD_where(tasmin))), freq)

----------------------------------------------------------------------------
(* percentile_doy.  The entries of arr are floats: <<v>> or NaN. *)

(* Mutant: center=False, the window ends on day t *)
rolling_construct_trailing(arr, window) ==
    [t \in DOMAIN arr |->
        [k \in 1..window |->
            LET j == t - (window - 1) + (k - 1)
            IN  IF j \in DOMAIN arr THEN arr[j] ELSE NaN]]

(* rr = arr.rolling(1, center=True, time=window).construct('window'):    *)
(* row t holds arr[t - window // 2 .. t + window - 1 - window // 2], NaN *)
(* where that leaves the series                                          *)
rolling_construct(arr, window) ==
    [t \in DOMAIN arr |->
        [k \in 1..window |->
            LET j == t - (window \div 2) + (k - 1)
            IN  IF j \in DOMAIN arr THEN arr[j] ELSE NaN]]

(* The values at the cells of rr, as a sequence in some order *)
RECURSIVE CellValues(_, _)
CellValues(rr, cells) ==
    IF cells = {} THEN <<>>
    ELSE LET c == CHOOSE c \in cells : TRUE
         IN  <<Val(rr[c[1]][c[2]])>> \o CellValues(rr, cells \ {c})

(* np.nanpercentile over the valid values, linear interpolation between  *)
(* the two nearest ranks; the value is kept multiplied by per[2], the    *)
(* denominator of per, so that it stays an integer.  NaN without values  *)
nanquantile(values, per) ==
    LET sorted == SortSeq(values, LAMBDA a, b : a < b)
        n == Len(sorted)
        pos == per[1] * (n - 1)
        lo == pos \div per[2]
        rest == pos - lo * per[2]
    IN  IF n = 0 THEN NaN
        ELSE IF rest = 0 THEN <<sorted[lo + 1] * per[2]>>
        ELSE <<sorted[lo + 1] * per[2] + rest * (sorted[lo + 2] - sorted[lo + 1])>>

(* quantile(per, ...) hands per * 100 to np.nanpercentile, which raises *)
(* ValueError unless 0 <= per * 100 <= 100                              *)
QuantileInRange(per) == 0 <= per[1] /\ per[1] <= per[2]

(* Mutant: quantile without skipna, a group with a NaN cell gives NaN *)
GroupQuantile_no_skipna(rr, doy, per) ==
    LET cells == {t \in DOMAIN rr : dayofyear(t) = doy} \X DOMAIN rr[1]
    IN  IF \E c \in cells : IsNaN(rr[c[1]][c[2]]) THEN NaN
        ELSE nanquantile(CellValues(rr, cells), per)

(* ind.compute().quantile(per, dim=('time', 'window')) for the group doy *)
GroupQuantile(rr, doy, per) ==
    LET valid == {c \in {t \in DOMAIN rr : dayofyear(t) = doy} \X DOMAIN rr[1] :
                     ~IsNaN(rr[c[1]][c[2]])}
    IN  nanquantile(CellValues(rr, valid), per)

(* Mutant: the table has an entry for every day of the year *)
percentile_doy_all_days(arr, window, per) ==
    LET rr == rolling_construct(arr, window)
    IN  [doy \in 1..YearLen |-> GroupQuantile(rr, doy, per)]

percentile_doy(arr, window, per) ==
    LET rr == rolling_construct(arr, window)
    IN  [doy \in {dayofyear(t) : t \in DOMAIN arr} |-> GroupQuantile(rr, doy, per)]

----------------------------------------------------------------------------
(* GSL.  The run of 6 days of rolling(time=6) and c == 6 is scaled with *)
(* the calendar to GSLRunDays days; freq is set to 'YS' inside GSL.     *)

(* 5 + K2C *)
GSLThresh == K2C + 500

(* tas.time.dt.month of day i, and the month of July: the first month of *)
(* the second half of the year                                           *)
month(i) == ((AbsDay(i) % YearLen) \div DaysPerMonth) + 1
July == (MonthsPerYear \div 2) + 1

(* c = ((tas > 5 + K2C) * 1).rolling(time=6).sum(dim='time'): the count *)
(* over the window that ends on day i, NaN while the window is not full *)
GSL_c(tas) ==
    [i \in DOMAIN tas |->
        IF i < GSLRunDays THEN NaN
        ELSE <<Cardinality({j \in (i - GSLRunDays + 1)..i : tas[j] > GSLThresh})>>]

(* i1 = ind.where(c == 6).resample(time=freq).min(dim='time') *)
GSL_i1(tas) ==
    LET c == GSL_c(tas)
    IN  [y \in Periods("YS", DOMAIN tas) |->
            LET hits == {i - 1 : i \in {j \in GroupDays("YS", DOMAIN tas, y) :
                                           c[j] = <<GSLRunDays>>}}
            IN  IF hits = {} THEN NaN ELSE <<SetMin(hits)>>]

(* i11 = i1.reindex_like(c, method='ffill'): each day takes the value at *)
(* the start of its year                                                 *)
GSL_i11(tas) ==
    LET i1 == GSL_i1(tas)
    IN  [i \in DOMAIN tas |-> i1[PeriodOf("YS", i)]]

(* i2 = ind.where(c == 0).where(tas.time.dt.month >= 7) *)
GSL_i2(tas) ==
    LET c == GSL_c(tas)
    IN  [i \in DOMAIN tas |-> IF c[i] = <<0>> /\ month(i) >= July THEN <<i - 1>> ELSE NaN]

(* d = i2 - i11 *)
GSL_d(tas) ==
    LET i2 == GSL_i2(tas)
        i11 == GSL_i11(tas)
    IN  [i \in DOMAIN tas |->
            IF IsNaN(i2[i]) \/ IsNaN(i11[i]) THEN NaN ELSE <<Val(i2[i]) - Val(i11[i])>>]

(* return d.resample(time=freq).max(dim='time') *)
GSL(tas) == ResampleMax(GSL_d(tas), "YS")

----------------------------------------------------------------------------
(* Arrays with a spatial dimension: a grid maps each point to its series. *)
(* Every step of CFD, CFD2 and percentile_doy names the dimension it runs *)
(* along (dim='time', input_core_dims=[['time']], dim=('time','window')), *)
(* so each point's column goes through the steps on its own               *)

Points == {1, 2}

CFD_grid(tasmin, freq) == [pt \in DOMAIN tasmin |-> CFD(tasmin[pt], freq)]

CFD2_grid(tasmin, freq) == [pt \in DOMAIN tasmin |-> CFD2(tasmin[pt], freq).value]

(* Mutant: quantile(per) without dim, the cells of every point are pooled *)
percentile_doy_grid_pooled(arr, window, per) ==
    LET rr == [pt \in DOMAIN arr |-> rolling_construct(arr[pt], window)]
        len == Len(arr[CHOOSE pt \in DOMAIN arr : TRUE])
        valid(pt, doy) == {c \in {t \in 1..len : dayofyear(t) = doy} \X (1..window) :
                              ~IsNaN(rr[pt][c[1]][c[2]])}
        pooled(doy, pts) ==
            LET F[S \in SUBSET pts] ==
                    IF S = {} THEN <<>>
                    ELSE LET pt == CHOOSE x \in S : TRUE
                         IN  CellValues(rr[pt], valid(pt, doy)) \o F[S \ {pt}]
            IN  F[pts]
    IN  [pt \in DOMAIN arr |->
            [doy \in {dayofyear(t) : t \in 1..len} |->
                nanquantile(pooled(doy, DOMAIN arr), per)]]

percentile_doy_grid(arr, window, per) ==
    [pt \in DOMAIN arr |-> percentile_doy(arr[pt], window, per)]

----------------------------------------------------------------------------
(* The conversions of indices/_conversion.py.  Temperatures are in      *)
(* hundredths of a kelvin, pressures in hPa; a saturation vapor pressure *)
(* is kept as the equation it comes from, the reference (water or ice)   *)
(* and its value rounded to the hPa, at which the four equations agree   *)

ConvTemps == {K2C - 2000, K2C, K2C + 2000}

(* The equation a method label selects, "" when no branch takes the label *)
svp_equation(method) ==
    IF method \in {"sonntag90", "SO90"} THEN "sonntag90"
    ELSE IF method \in {"tetens30", "TE30"} THEN "tetens30"
    ELSE IF method \in {"goffgratch46", "GG46"} THEN "goffgratch46"
    ELSE IF method \in {"wmo08", "WMO08"} THEN "wmo08"
    ELSE ""

(* thresh: ice_thresh converted to kelvin, 0 K when it is None *)
svp_thresh(ice_thresh) == IF ice_thresh = None THEN 0 ELSE ice_thresh[1]

(* ref_is_water = tas > thresh *)
ref_is_water(tas, ice_thresh) == [i \in DOMAIN tas |-> tas[i] > svp_thresh(ice_thresh)]

(* The value of the equations at the temperatures of ConvTemps, in hPa: *)
(* 1.26, 6.11, 23.39 over water and 1.03, 6.11, 28.30 over ice          *)
e_sat_hPa(water, t) ==
    IF t = K2C - 2000 THEN 1
    ELSE IF t = K2C THEN 6
    ELSE IF water THEN 23 ELSE 28

saturation_vapor_pressure(tas, ice_thresh, method) ==
    IF svp_equation(method) = ""
    THEN [value |-> <<>>, raised |-> "ValueError"]
    ELSE [value |-> [i \in DOMAIN tas |->
                        [equation |-> svp_equation(method),
                         water |-> ref_is_water(tas, ice_thresh)[i],
                         hPa |-> e_sat_hPa(ref_is_water(tas, ice_thresh)[i], tas[i])]],
          raised |-> ""]

(* Exact arithmetic on fractions <<numerator, denominator>>, denominator > 0 *)
RECURSIVE Gcd(_, _)
Gcd(a, b) == IF b = 0 THEN a ELSE Gcd(b, a % b)

Abs(a) == IF a < 0 THEN 0 - a ELSE a

RatMul(x, y) ==
    LET g1 == Gcd(Abs(x[1]), y[2])
        g2 == Gcd(Abs(y[1]), x[2])
    IN  IF x[1] = 0 \/ y[1] = 0 THEN <<0, 1>>
        ELSE <<(x[1] \div g1) * (y[1] \div g2), (x[2] \div g2) * (y[2] \div g1)>>

(* x / y for y # 0 *)
RatDiv(x, y) ==
    RatMul(x, IF y[1] > 0 THEN <<y[2], y[1]>> ELSE <<0 - y[2], 0 - y[1]>>)

RatPlus1(x) == <<x[1] + x[2], x[2]>>

(* x <= y, by the integer parts and then the remainders *)
RECURSIVE RatLE(_, _)
RatLE(x, y) ==
    LET qx == x[1] \div x[2]
        qy == y[1] \div y[2]
        rx == x[1] - qx * x[2]
        ry == y[1] - qy * y[2]
    IN  IF qx # qy THEN qx < qy
        ELSE IF rx = 0 THEN TRUE
        ELSE IF ry = 0 THEN FALSE
        ELSE RatLE(<<y[2], ry>>, <<x[2], rx>>)

(* q.clip(lo, hi) *)
RatClip(q, lo, hi) ==
    LET low == IF RatLE(lo, q) THEN q ELSE lo
    IN  IF RatLE(low, hi) THEN low ELSE hi

(* w_sat = 0.62198 * e_sat / (ps - e_sat) *)
w_sat(e_sat, ps) == RatMul(<<31099, 50000>>, <<e_sat, ps - e_sat>>)

(* q_sat = w_sat / (1 + w_sat) *)
q_sat(e_sat, ps) == RatDiv(w_sat(e_sat, ps), RatPlus1(w_sat(e_sat, ps)))

(* w = w_sat * rh; q = w / (1 + w); then invalid_values: None leaves q, *)
(* "clip" clips it to [0, q_sat], "mask" puts NaN outside that range,   *)
(* any other value leaves q                                             *)
specific_humidity_q(e_sat, rh, ps, invalid_values) ==
    LET w == RatMul(w_sat(e_sat, ps), rh)
        q == RatDiv(w, RatPlus1(w))
    IN  IF invalid_values = None THEN q
        ELSE IF invalid_values = <<"clip">> THEN RatClip(q, <<0, 1>>, q_sat(e_sat, ps))
        ELSE IF invalid_values = <<"mask">>
        THEN IF RatLE(q, q_sat(e_sat, ps)) /\ RatLE(<<0, 1>>, q) THEN q ELSE NaN
        ELSE q

specific_humidity(tas, rh, ps, ice_thresh, method, invalid_values) ==
    LET e_sat == saturation_vapor_pressure(tas, ice_thresh, method)
    IN  IF e_sat.raised # "" THEN e_sat
        ELSE [value |-> [i \in DOMAIN tas |->
                            specific_humidity_q(e_sat.value[i].hPa, rh[i], ps, invalid_values)],
              raised |-> ""]

----------------------------------------------------------------------------
(* The state machine: an input series is drawn, then one indicator is called *)

Init ==
    /\ series \in SeqsUpTo(Temps, MaxDays)
    /\ t0 \in 0..(YearLen - 1)
    /\ call = NoCall
    /\ applied = <<>>
    /\ result = <<>>
    /\ raised = ""

CallCFD ==
    /\ call = NoCall
    /\ Len(series) >= 2
    /\ \E freq \in Freqs :
        /\ call' = [NoCall EXCEPT !.name = "CFD", !.freq = freq]
        /\ result' = CFD(series, freq)
    /\ applied' = <<>>
    /\ raised' = ""
    /\ UNCHANGED <<series, t0>>

CallCFD2 ==
    /\ call = NoCall
    /\ DOMAIN series # {}
    /\ \E freq \in Freqs :
        /\ call' = [NoCall EXCEPT !.name = "CFD2", !.freq = freq]
        /\ applied' = [p \in DOMAIN Resample(FrostMask(series), freq) |->
                           longest_run(Resample(FrostMask(series), freq)[p])]
        /\ result' = CFD2(series, freq).value
        /\ raised' = CFD2(series, freq).raised
    /\ UNCHANGED <<series, t0>>

CallHWI ==
    /\ call = NoCall
    /\ Len(series) >= 1
    /\ \E freq \in Freqs, window \in Windows \cup BadWindows, thresh \in Threshes :
        /\ call' = [NoCall EXCEPT !.name = "HWI", !.freq = freq,
                                   !.window = window, !.thresh = thresh]
        /\ applied' = IF ~ValidWindow(window) THEN <<>>
                       ELSE [p \in DOMAIN Resample(OverMask(series, thresh), freq) |->
                               HWI_ufunc(Resample(OverMask(series, thresh), freq)[p], window)]
        /\ result' = HWI(series, thresh, window, freq).value
        /\ raised' = HWI(series, thresh, window, freq).raised
    /\ UNCHANGED <<series, t0>>

CallCSI ==
    /\ call = NoCall
    /\ Len(series) >= 1
    /\ \E freq \in Freqs, window \in Windows \cup BadWindows, thresh \in Threshes :
        /\ call' = [NoCall EXCEPT !.name = "CSI", !.freq = freq,
                                   !.window = window, !.thresh = thresh]
        /\ applied' = IF ~ValidWindow(window) THEN <<>>
                       ELSE [p \in DOMAIN Resample(UnderMask(series, thresh), freq) |->
                               CSI_ufunc(Resample(UnderMask(series, thresh), freq)[p], window)]
        /\ result' = CSI(series, thresh, window, freq).value
        /\ raised' = CSI(series, thresh, window, freq).raised
    /\ UNCHANGED <<series, t0>>

(* The run-length engine on the mask f = tasmin < K2C of the whole series *)
CallRunLength ==
    /\ call = NoCall
    /\ \E window \in Windows :
        /\ call' = [NoCall EXCEPT !.name = "run_length", !.window = window]
        /\ result' = [runs |-> rle(FrostMask(series)),
                      longest_run |-> longest_run(FrostMask(series)),
                      run_event_count |-> run_event_count(FrostMask(series), window),
                      run_day_count |-> windowed_run_count(FrostMask(series), window),
                      first_run_end_position |->
                          first_run_end_position(FrostMask(series), window),
                      last_run_start_position |->
                          last_run_start_position(FrostMask(series), window)]
    /\ applied' = <<>>
    /\ raised' = ""
    /\ UNCHANGED <<series, t0>>

Next ==
    \/ CallRunLength
    \/ CallCFD
    \/ CallCFD2
    \/ CallHWI
    \/ CallCSI

Spec == Init /\ [][Next]_vars

(* The calibration series of percentile_doy, with missing values *)
DoyTemps == {<<K2C - 100>>, <<K2C + 100>>, NaN}

InitDoy ==
    /\ series \in SeqsUpTo(DoyTemps, MaxDoyDays)
    /\ t0 \in 0..(YearLen - 1)
    /\ call = NoCall
    /\ applied = <<>>
    /\ result = <<>>
    /\ raised = ""

CallPercentileDoy ==
    /\ call = NoCall
    /\ Len(series) >= 1
    /\ \E window \in Windows, per \in Pers \cup EdgePers \cup OutPers :
        /\ call' = [NoCall EXCEPT !.name = "percentile_doy", !.window = window, !.per = per]
        /\ result' = IF QuantileInRange(per) THEN percentile_doy(series, window, per) ELSE <<>>
        /\ raised' = IF QuantileInRange(per) THEN "" ELSE "ValueError"
    /\ applied' = <<>>
    /\ UNCHANGED <<series, t0>>

NextDoy == CallPercentileDoy

SpecDoy == InitDoy /\ [][NextDoy]_vars

----------------------------------------------------------------------------
(* The per-day counting indicators, on the same input series *)
CallFD ==
    /\ call = NoCall
    /\ Len(series) >= 1
    /\ \E freq \in Freqs :
        /\ call' = [NoCall EXCEPT !.name = "FD", !.freq = freq]
        /\ result' = FD(series, freq)
    /\ applied' = <<>>
    /\ raised' = ""
    /\ UNCHANGED <<series, t0>>

CallCoolingDegreeDays ==
    /\ call = NoCall
    /\ Len(series) >= 1
    /\ \E freq \in Freqs, thresh \in Threshes :
        /\ call' = [NoCall EXCEPT !.name = "cooling_degree_days", !.freq = freq,
                                   !.thresh = thresh]
        /\ result' = cooling_degree_days(series, thresh, freq)
    /\ applied' = <<>>
    /\ raised' = ""
    /\ UNCHANGED <<series, t0>>

NextCount ==
    \/ CallFD
    \/ CallCoolingDegreeDays

SpecCount == Init /\ [][NextCount]_vars

----------------------------------------------------------------------------

(* A series with missing dates: its timestamps are some of the days *)
(* 1..MaxGapDays, day i being calendar day t0 + i - 1               *)
GapTemps == {K2C - 100, K2C + 100}

InitGap ==
    /\ \E T \in (SUBSET (1..MaxGapDays)) \ {{}} : series \in [T -> GapTemps]
    /\ t0 \in 0..(YearLen - 1)
    /\ call = NoCall
    /\ applied = <<>>
    /\ result = <<>>
    /\ raised = ""

NextGap == CallCFD2

SpecGap == InitGap /\ [][NextGap]_vars

----------------------------------------------------------------------------

(* A grid of two points with series of the same length *)
AsFloat(grid) == [pt \in DOMAIN grid |-> [i \in DOMAIN grid[pt] |-> <<grid[pt][i]>>]]

InitGrid ==
    /\ \E n \in 1..MaxGridDays : series \in [Points -> [1..n -> GapTemps]]
    /\ t0 \in 0..(YearLen - 1)
    /\ call = NoCall
    /\ applied = <<>>
    /\ result = <<>>
    /\ raised = ""

CallCFDGrid ==
    /\ call = NoCall
    /\ \A pt \in Points : Len(series[pt]) >= 2
    /\ \E freq \in Freqs :
        /\ call' = [NoCall EXCEPT !.name = "CFD", !.freq = freq]
        /\ result' = CFD_grid(series, freq)
    /\ applied' = <<>>
    /\ raised' = ""
    /\ UNCHANGED <<series, t0>>

CallCFD2Grid ==
    /\ call = NoCall
    /\ \E freq \in Freqs :
        /\ call' = [NoCall EXCEPT !.name = "CFD2", !.freq = freq]
        /\ result' = CFD2_grid(series, freq)
    /\ applied' = <<>>
    /\ raised' = ""
    /\ UNCHANGED <<series, t0>>

CallPercentileDoyGrid ==
    /\ call = NoCall
    /\ \E window \in Windows, per \in Pers :
        /\ call' = [NoCall EXCEPT !.name = "percentile_doy", !.window = window, !.per = per]
        /\ result' = percentile_doy_grid(AsFloat(series), window, per)
    /\ applied' = <<>>
    /\ raised' = ""
    /\ UNCHANGED <<series, t0>>

NextGrid ==
    \/ CallCFDGrid
    \/ CallCFD2Grid
    \/ CallPercentileDoyGrid

SpecGrid == InitGrid /\ [][NextGrid]_vars

----------------------------------------------------------------------------

(* The mean temperatures GSL is called on: below, at and over 5 degC *)
GSLTemps == {GSLThresh - 100, GSLThresh, GSLThresh + 100}

InitGSL ==
    /\ series \in SeqsUpTo(GSLTemps, MaxGSLDays)
    /\ t0 \in 0..(YearLen - 1)
    /\ call = NoCall
    /\ applied = <<>>
    /\ result = <<>>
    /\ raised = ""

CallGSL ==
    /\ call = NoCall
    /\ Len(series) >= 1
    /\ call' = [NoCall EXCEPT !.name = "GSL", !.freq = "YS"]
    /\ result' = GSL(series)
    /\ applied' = <<>>
    /\ raised' = ""
    /\ UNCHANGED <<series, t0>>

NextGSL == CallGSL

SpecGSL == InitGSL /\ [][NextGSL]_vars

----------------------------------------------------------------------------

(* The tables TN10p is called with: one entry for the odd and one for the *)
(* even days of the year, with or without the last day of the year        *)
TN10pEntries == {<<K2C>>, <<K2C + 100>>, NaN}

TN10pTables ==
    {[d \in D |-> IF d % 2 = 1 THEN odd ELSE even] :
        D \in {1..YearLen, 1..(YearLen - 1)}, odd \in TN10pEntries, even \in TN10pEntries}

InitTN ==
    /\ series \in SeqsUpTo(Temps, MaxTNDays)
    /\ t0 \in 0..(YearLen - 1)
    /\ call = NoCall
    /\ applied = <<>>
    /\ result = <<>>
    /\ raised = ""

CallTN10p ==
    /\ call = NoCall
    /\ Len(series) >= 1
    /\ \E freq \in Freqs, p10 \in TN10pTables :
        /\ call' = [NoCall EXCEPT !.name = "TN10p", !.freq = freq, !.p10 = p10]
        /\ result' = TN10p(series, p10, freq)
    /\ applied' = <<>>
    /\ raised' = ""
    /\ UNCHANGED <<series, t0>>

NextTN == CallTN10p

SpecTN == InitTN /\ [][NextTN]_vars

----------------------------------------------------------------------------

(* Arithmetic of floats that may be NaN: a NaN operand gives NaN *)
FloatSub(a, b) == IF IsNaN(a) \/ IsNaN(b) THEN NaN ELSE <<Val(a) - Val(b)>>

(* snowfall_approximation(pr, tas, thresh, method); thresh is in the units *)
(* of tas after convert_units_to(thresh, tas).                             *)
(*   if method == "binary": prsn = pr.where(tas < thresh, 0)               *)
(*   else: raise ValueError                                                *)
snowfall_approximation(pr, tas, thresh, method) ==
    IF method = "binary"
    THEN [value  |-> [i \in DOMAIN pr |-> IF tas[i] < thresh THEN pr[i] ELSE <<0>>],
          raised |-> ""]
    ELSE [value |-> <<>>, raised |-> "ValueError"]

(* prlp = pr - snowfall_approximation(pr, tas, thresh=thresh, method=method) *)
rain_approximation(pr, tas, thresh, method) ==
    LET prsn == snowfall_approximation(pr, tas, thresh, method)
    IN  IF prsn.raised # ""
        THEN [value |-> <<>>, raised |-> prsn.raised]
        ELSE [value  |-> [i \in DOMAIN pr |-> FloatSub(pr[i], prsn.value[i])],
              raised |-> ""]

(* The conversions, on a temperature series of one day or more *)
SVPMethods ==
    {"dewpoint", "goffgratch46", "sonntag90", "tetens30", "wmo08",
     "GG46", "SO90", "TE30", "WMO08", "magnus", "so90"}

IceThreshes == {None, <<K2C>>}

InitConv ==
    /\ \E n \in 1..MaxConvDays : series \in [1..n -> ConvTemps]
    /\ t0 = 0
    /\ call = NoCall
    /\ applied = <<>>
    /\ result = <<>>
    /\ raised = ""

CallSaturationVaporPressure ==
    /\ call = NoCall
    /\ \E method \in SVPMethods, ice_thresh \in IceThreshes :
        /\ call' = [NoCall EXCEPT !.name = "saturation_vapor_pressure",
                                   !.method = method, !.ice_thresh = ice_thresh]
        /\ result' = saturation_vapor_pressure(series, ice_thresh, method).value
        /\ raised' = saturation_vapor_pressure(series, ice_thresh, method).raised
    /\ applied' = <<>>
    /\ UNCHANGED <<series, t0>>

(* rh as a fraction (120 % is 6/5), ps in hPa; invalid_values is None *)
(* when the argument is left out                                      *)
RHs == {<<-1, 10>>, <<0, 1>>, <<1, 2>>, <<1, 1>>, <<6, 5>>}
Pressures == {700, 1013}
InvalidValues == {None, <<"clip">>, <<"mask">>}
HumidityMethods == {"sonntag90", "TE30", "dewpoint"}

CallSpecificHumidity ==
    /\ call = NoCall
    /\ \E rh \in [DOMAIN series -> RHs], ps \in Pressures, method \in HumidityMethods,
          ice_thresh \in IceThreshes, invalid_values \in InvalidValues :
        /\ call' = [NoCall EXCEPT !.name = "specific_humidity", !.rh = rh, !.ps = ps,
                                   !.method = method, !.ice_thresh = ice_thresh,
                                   !.invalid_values = invalid_values]
        /\ result' = specific_humidity(series, rh, ps, ice_thresh, method,
                                       invalid_values).value
        /\ raised' = specific_humidity(series, rh, ps, ice_thresh, method,
                                       invalid_values).raised
    /\ applied' = <<>>
    /\ UNCHANGED <<series, t0>>

(* pr of a day is a flux or missing; thresh in kelvin ("0 degC", "20 degC") *)
PrValues == {<<0>>, <<5>>, NaN}
SnowThreshes == {K2C, K2C + 2000}
SnowMethods == {"binary", "brown", "BINARY"}

CallSnowfallApproximation ==
    /\ call = NoCall
    /\ \E pr \in [DOMAIN series -> PrValues], thresh \in SnowThreshes,
          method \in SnowMethods :
        /\ call' = [NoCall EXCEPT !.name = "snowfall_approximation", !.pr = pr,
                                   !.thresh = thresh, !.method = method]
        /\ result' = snowfall_approximation(pr, series, thresh, method).value
        /\ raised' = snowfall_approximation(pr, series, thresh, method).raised
    /\ applied' = <<>>
    /\ UNCHANGED <<series, t0>>

CallRainApproximation ==
    /\ call = NoCall
    /\ \E pr \in [DOMAIN series -> PrValues], thresh \in SnowThreshes,
          method \in SnowMethods :
        /\ call' = [NoCall EXCEPT !.name = "rain_approximation", !.pr = pr,
                                   !.thresh = thresh, !.method = method]
        /\ result' = rain_approximation(pr, series, thresh, method).value
        /\ raised' = rain_approximation(pr, series, thresh, method).raised
    /\ applied' = <<>>
    /\ UNCHANGED <<series, t0>>

NextConv ==
    \/ CallSaturationVaporPressure
    \/ CallSpecificHumidity
    \/ CallSnowfallApproximation
    \/ CallRainApproximation

SpecConv == InitConv /\ [][NextConv]_vars

----------------------------------------------------------------------------

(* Reference notions the claims are stated with, defined on the days of   *)
(* the series directly, without the run-length engine                     *)

(* The days of period p of the resampling of the series at call.freq *)
DaysOf(p) == {i \in DOMAIN series : PeriodOf(call.freq, i) = p}

AllPeriods == {PeriodOf(call.freq, i) : i \in DOMAIN series}

(* a..b is a block of D on which the mask holds throughout *)
IsBlock(D, mask, a, b) == a <= b /\ \A j \in a..b : j \in D /\ mask[j]

(* The greatest number of consecutive days of D on which the mask holds *)
LongestBlock(D, mask) ==
    SetMax({0} \cup {b - a + 1 : <<a, b>> \in {ab \in D \X D : IsBlock(D, mask, ab[1], ab[2])}})

(* The days of D inside a block of at least window days of D on which the *)
(* mask holds                                                             *)
SpellDays(D, mask, window) ==
    {i \in D : \E a \in D, b \in D :
        /\ a <= i /\ i <= b
        /\ b - a + 1 >= window
        /\ IsBlock(D, mask, a, b)}

Frost == [i \in DOMAIN series |-> series[i] < K2C]
NotWarm == [i \in DOMAIN series |-> ~(series[i] > K2C)]

----------------------------------------------------------------------------
(* C1: for every boolean sequence of length n (n = 0 included) longest_run *)
(* returns L with 0 <= L <= n, L = n exactly when every entry is True and  *)
(* L = 0 exactly when no entry is True; CFD2 emits this value for each     *)
(* period's slice of the mask tasmin < K2C.                                *)
LongestRunWithin(L, D) ==
    /\ 0 <= L /\ L <= Cardinality(D)
    /\ (L = Cardinality(D)) <=> (\A i \in D : series[i] < K2C)
    /\ (L = 0) <=> (\A i \in D : ~(series[i] < K2C))

C1_LongestRunBounds ==
    /\ LongestRunWithin(longest_run(FrostMask(series)), DOMAIN series)
    /\ call.name = "CFD2" =>
        /\ raised = ""
        /\ DOMAIN result = AllPeriods
        /\ \A p \in DOMAIN result : LongestRunWithin(result[p], DaysOf(p))

(* CFD2 has returned: one period is all frost over two days or more, *)
(* another has no frost, a third lies in between                     *)
C1_Witness ==
    /\ call.name = "CFD2"
    /\ \E p, q, r \in DOMAIN result :
        /\ result[p] = Cardinality(DaysOf(p)) /\ result[p] >= 2
        /\ result[q] = 0
        /\ 0 < result[r] /\ result[r] < Cardinality(DaysOf(r))

(* C2: HWI and CSI return, for each period, the number of its days that *)
(* belong to a run of at least window consecutive days satisfying the   *)
(* condition (tasmax > K2C + thresh, tas < K2C + thresh).               *)
C2_SpellDayCount ==
    call.name \in {"HWI", "CSI"} =>
        /\ raised = ""
        /\ DOMAIN result = AllPeriods
        /\ \A p \in DOMAIN result :
            LET cond == [i \in DOMAIN series |->
                            IF call.name = "HWI"
                            THEN series[i] > K2C + 100 * call.thresh
                            ELSE series[i] < K2C + 100 * call.thresh]
            IN  result[p] = Cardinality(SpellDays(DaysOf(p), cond, call.window))

(* C3: runs are not carried across a period boundary: the run statistic  *)
(* of a period is computed from the mask values inside that period only, *)
(* a spell that crosses the boundary being split there.                  *)
Rerun(tasmin) ==
    IF call.name = "CFD" THEN CFD(tasmin, call.freq) ELSE CFD2(tasmin, call.freq).value

C3_NoCarryAcrossBoundary ==
    call.name \in {"CFD", "CFD2"} =>
        /\ call.name = "CFD2" =>
            \A p \in DOMAIN result : result[p] = LongestBlock(DaysOf(p), Frost)
        /\ \A other \in [DOMAIN series -> Temps] :
            \A p \in DOMAIN result :
                (\A i \in DaysOf(p) : other[i] = series[i]) => Rerun(other)[p] = result[p]

(* C4: CFD returns, for each period, the maximum number of consecutive *)
(* frost days (tasmin < K2C) among the days of that period.            *)
C4_CFDMaxConsecutiveFrostDays ==
    call.name = "CFD" =>
        /\ DOMAIN result = AllPeriods
        /\ \A p \in DOMAIN result : result[p] = <<LongestBlock(DaysOf(p), Frost)>>

----------------------------------------------------------------------------
(* Reference notions for the percentile table *)

(* The values of the series at a set of <<window centre, day>> pairs, one *)
(* value for each pair                                                    *)
RECURSIVE PairValues(_)
PairValues(pairs) ==
    IF pairs = {} THEN <<>>
    ELSE LET c == CHOOSE c \in pairs : TRUE
         IN  <<Val(series[c[2]])>> \o PairValues(pairs \ {c})

(* The distance between two days of the year around the year's circle *)
CircDist(a, b) ==
    LET x == (a - b) % YearLen
    IN  IF x <= YearLen - x THEN x ELSE YearLen - x

(* The valid days whose day-of-year lies within h days of doy circularly, *)
(* from every year                                                        *)
CircularPool(doy, h) ==
    {<<i, i>> : i \in {j \in DOMAIN series :
        CircDist(dayofyear(j), doy) <= h /\ ~IsNaN(series[j])}}

(* The valid days of the windows centred on the timestamps whose          *)
(* day-of-year is doy: before days back and after days on along the time  *)
(* axis, cut at the ends of the series; a day counts once per window      *)
TimeWindowPool(doy, before, after) ==
    {c \in (DOMAIN series) \X (DOMAIN series) :
        /\ dayofyear(c[1]) = doy
        /\ c[1] - before <= c[2] /\ c[2] <= c[1] + after
        /\ ~IsNaN(series[c[2]])}

----------------------------------------------------------------------------
(* Reference notions for the run-length engine on the mask f = tasmin < K2C *)

TrueDays == {i \in DOMAIN series : series[i] < K2C}

(* The days on which a run of frost days starts *)
RunStarts == {i \in TrueDays : i - 1 \notin TrueDays}

(* C6 as stated: with window = 1, run_event_count and run_day_count      *)
(* coincide for every boolean sequence: both equal the number of True    *)
(* entries.                                                              *)
C6_EventAndDayCountCoincide ==
    (call.name = "run_length" /\ call.window = 1) =>
        /\ result.run_day_count = Cardinality(TrueDays)
        /\ result.run_event_count = Cardinality(TrueDays)

(* C6 as amended: with window = 1, run_day_count equals the number of    *)
(* True entries and run_event_count equals the number of runs, which is  *)
(* at most the number of True entries; the two coincide exactly when no  *)
(* two True entries are adjacent.                                        *)
C6_EventCountIsRunCount ==
    (call.name = "run_length" /\ call.window = 1) =>
        /\ result.run_day_count = Cardinality(TrueDays)
        /\ result.run_event_count = Cardinality(RunStarts)
        /\ result.run_event_count <= result.run_day_count
        /\ (result.run_event_count = result.run_day_count) <=> (RunStarts = TrueDays)

(* Window 1 on a sequence with a run of two days or more and a second run *)
C6_Witness ==
    /\ call.name = "run_length" /\ call.window = 1
    /\ result.run_event_count >= 2
    /\ result.run_event_count < result.run_day_count

(* C7: for every boolean sequence, run_day_count(window=1) equals the    *)
(* total number of True entries of the sequence (here: of each period's  *)
(* slice of the mask tasmax > K2C + thresh that HWI hands to             *)
(* rl.windowed_run_count, and of the whole mask tasmin < K2C).           *)
C7_DayCountWindowOne ==
    /\ (call.name = "run_length" /\ call.window = 1) =>
        result.run_day_count = Cardinality(TrueDays)
    /\ (call.name = "HWI" /\ call.window = 1) =>
        /\ DOMAIN applied = AllPeriods
        /\ \A p \in DOMAIN applied :
            applied[p] = Cardinality({i \in DaysOf(p) : series[i] > K2C + 100 * call.thresh})

(* HWI with window 1: a period with two days over the threshold apart *)
C7_Witness ==
    /\ call.name = "HWI" /\ call.window = 1
    /\ \E p \in DOMAIN applied :
        /\ applied[p] >= 1
        /\ applied[p] < Cardinality(DaysOf(p))

(* C8: the sum over the periods of run_day_count(window) on each period's *)
(* slice is <= run_day_count(window) on the whole sequence, with equality *)
(* whenever no qualifying spell straddles a period boundary.              *)
Over == [i \in DOMAIN series |-> series[i] > K2C + 100 * call.thresh]

RECURSIVE SumOver(_, _)
SumOver(f, S) ==
    IF S = {} THEN 0
    ELSE LET p == CHOOSE p \in S : TRUE IN f[p] + SumOver(f, S \ {p})

(* A block of at least window days over the threshold holds the last day *)
(* of one period and the first day of the next                           *)
SpellStraddles ==
    \E a, b \in DOMAIN series :
        /\ b - a + 1 >= call.window
        /\ IsBlock(DOMAIN series, Over, a, b)
        /\ PeriodOf(call.freq, a) # PeriodOf(call.freq, b)

C8_PartitionSumBelowWhole ==
    (call.name = "HWI" /\ call.window >= 1) =>
        LET whole == Cardinality(SpellDays(DOMAIN series, Over, call.window))
            parts == SumOver(applied, DOMAIN applied)
        IN  /\ DOMAIN applied = AllPeriods
            /\ whole = windowed_run_count(OverMask(series, call.thresh), call.window)
            /\ parts <= whole
            /\ ~SpellStraddles => parts = whole

(* A spell of at least window days is cut by a boundary and the sum falls *)
(* short of the whole                                                     *)
C8_Witness ==
    /\ call.name = "HWI" /\ call.window >= 2
    /\ SpellStraddles
    /\ 0 < SumOver(applied, DOMAIN applied)
    /\ SumOver(applied, DOMAIN applied)
         < Cardinality(SpellDays(DOMAIN series, Over, call.window))

(* C9: for a fixed boolean sequence run_event_count(window) is           *)
(* non-increasing in window: run_event_count(w2) <= run_event_count(w1)  *)
(* for all 1 <= w1 <= w2.                                                *)
C9_EventCountNonIncreasing ==
    call.name = "run_length" =>
        /\ result.run_event_count =
              Cardinality({i \in RunStarts :
                  \A j \in i..(i + call.window - 1) : j \in TrueDays})
        /\ \A w2 \in call.window..(MaxWindow + 1) :
              run_event_count(FrostMask(series), w2) <= result.run_event_count

(* A larger window counts strictly fewer runs, and still at least one *)
C9_Witness ==
    /\ call.name = "run_length"
    /\ \E w2 \in (call.window + 1)..MaxWindow :
        /\ 0 < run_event_count(FrostMask(series), w2)
        /\ run_event_count(FrostMask(series), w2) < result.run_event_count

(* C10: the run sequence of a boolean sequence is exactly its set of     *)
(* maximal runs of True: ordered by start index, each of length >= 1,    *)
(* any two disjoint and separated by at least one False entry, covering  *)
(* exactly the True indices; an empty or all-False input gives an empty  *)
(* run sequence.  Starts are 0-based.                                    *)
RunDays(r) == (r.start + 1)..(r.start + r.len)

C10_MaximalRuns ==
    call.name = "run_length" =>
        LET runs == result.runs
        IN  /\ \A k \in DOMAIN runs : runs[k].len >= 1 /\ runs[k].start >= 0
            /\ \A k \in DOMAIN runs : k > 1 =>
                  runs[k].start > runs[k - 1].start + runs[k - 1].len
            /\ UNION {RunDays(runs[k]) : k \in DOMAIN runs} = TrueDays
            /\ {runs[k].start + 1 : k \in DOMAIN runs} = RunStarts
            /\ (TrueDays = {}) <=> (runs = <<>>)

(* Two runs, the first of them longer than one day, after a False entry: *)
(* the shape of [F, T, T, F, T]                                          *)
C10_Witness ==
    /\ call.name = "run_length"
    /\ Len(result.runs) = 2
    /\ result.runs[1].start >= 1
    /\ result.runs[1].len >= 2

----------------------------------------------------------------------------
(* C11: the periods of one partitioning (FD's resample(time=freq)) are      *)
(* ordered, contiguous and non-overlapping and cover the timeline: every    *)
(* input timestamp falls in exactly one period, so each day contributes to  *)
(* exactly one per-period result.                                           *)
C11_PeriodsPartitionTimeline ==
    call.name = "FD" =>
        LET T == DOMAIN series
            P == Periods(call.freq, T)
            G(p) == GroupDays(call.freq, T, p)
        IN  /\ DOMAIN result = P
            /\ \A i \in T : Cardinality({p \in P : i \in G(p)}) = 1
            /\ \A p \in P : G(p) # {} /\ G(p) = SetMin(G(p))..SetMax(G(p))
            /\ \A p, q \in P : p < q => SetMax(G(p)) < SetMin(G(q))
            /\ \A p \in P : (p + 1) \in P => SetMin(G(p + 1)) = SetMax(G(p)) + 1
            /\ P = SetMin(P)..SetMax(P)
            /\ \A p \in P :
                result[p] = Cardinality({i \in T : series[i] < K2C /\ i \in G(p)})
            /\ SeqSum([k \in 1..Cardinality(P) |-> result[Kth(P, k)]])
                   = Cardinality({i \in T : series[i] < K2C})

(* FD has returned for three periods or more, one of two days or more, *)
(* with a frost day in the first and in the last                       *)
C11_Witness ==
    /\ call.name = "FD"
    /\ Cardinality(DOMAIN result) >= 3
    /\ \E p \in DOMAIN result : Cardinality(DaysOf(p)) >= 2
    /\ result[SetMin(DOMAIN result)] >= 1
    /\ result[SetMax(DOMAIN result)] >= 1

----------------------------------------------------------------------------
----------------------------------------------------------------------------
(* C13: percentile_doy called with a quantile per outside the open interval *)
(* (0,1), per = 0 and per = 1 included, is rejected before any table entry  *)
(* is computed: an error reaches the caller and no table is returned.       *)
C13_PerOutsideOpenUnitRejected ==
    (/\ call.name = "percentile_doy"
     /\ ~(0 < call.per[1] /\ call.per[1] < call.per[2])) =>
        /\ raised # ""
        /\ result = <<>>

----------------------------------------------------------------------------
(* C14: when the pooled set of a day-of-year is empty (every value in its *)
(* windows is missing) percentile_doy sets the table entry of that day to *)
(* the missing-value marker, still computes the entry of every other      *)
(* day-of-year, and does not raise.                                       *)
C14_EmptyPoolGivesMissing ==
    (/\ call.name = "percentile_doy"
     /\ 0 < call.per[1] /\ call.per[1] < call.per[2]) =>
        /\ raised = ""
        /\ DOMAIN result = {dayofyear(t) : t \in DOMAIN series}
        /\ \A doy \in DOMAIN result :
            LET pool == TimeWindowPool(doy, call.window \div 2,
                                       call.window - 1 - (call.window \div 2))
            IN  /\ pool = {} => IsNaN(result[doy])
                /\ pool # {} =>
                    /\ ~IsNaN(result[doy])
                    /\ \E c \in pool : Val(result[doy]) <= Val(series[c[2]]) * call.per[2]
                    /\ \E c \in pool : Val(result[doy]) >= Val(series[c[2]]) * call.per[2]

(* The table has a missing entry for a day of the year whose windows hold *)
(* no value, next to a computed entry whose windows hold a missing value  *)
C14_Witness ==
    /\ call.name = "percentile_doy"
    /\ raised = ""
    /\ 0 < call.per[1] /\ call.per[1] < call.per[2]
    /\ call.window >= 2
    /\ \E d, e \in DOMAIN result :
        /\ IsNaN(result[d])
        /\ ~IsNaN(result[e])
        /\ \E t \in DOMAIN series :
            /\ dayofyear(t) = e
            /\ \E j \in DOMAIN series :
                /\ j - t \in (0 - (call.window \div 2))..(call.window - 1 - (call.window \div 2))
                /\ IsNaN(series[j])

----------------------------------------------------------------------------
(* C16: the table percentile_doy returns has exactly one entry for each  *)
(* day-of-year that appears among the timestamps of the calibration data *)
(* and no entry for any other day-of-year.                               *)
C16_OneEntryPerDoyPresent ==
    (call.name = "percentile_doy" /\ raised = "") =>
        /\ \A d \in 1..YearLen :
            d \in DOMAIN result <=>
                \E t \in 1..Len(series) : (t0 + t - 1) % YearLen = d - 1
        /\ DOMAIN result \subseteq 1..YearLen
        /\ \A d \in DOMAIN result : IsNaN(result[d]) \/ result[d] = <<Val(result[d])>>

(* The calibration data stop short of a year: the table has entries for *)
(* two days of the year or more, and a day of the year has none         *)
C16_Witness ==
    /\ call.name = "percentile_doy"
    /\ raised = ""
    /\ Cardinality(DOMAIN result) >= 2
    /\ \E d \in 1..YearLen : d \notin DOMAIN result
    /\ \E d \in DOMAIN result : ~IsNaN(result[d])

----------------------------------------------------------------------------
(* C15: a period that contains no data point yields the missing-value     *)
(* marker for its cell, and the results of all other periods are still    *)
(* produced: CFD2 does not fail on it.                                    *)
C15_EmptyPeriodGivesMissing ==
    call.name = "CFD2" =>
        LET first == SetMin(AllPeriods)
            last == SetMax(AllPeriods)
        IN  /\ raised = ""
            /\ DOMAIN result = first..last
            /\ IF \A p \in first..last : DaysOf(p) # {}
               THEN \A p \in first..last : LongestRunWithin(result[p], DaysOf(p))
               ELSE \A p \in first..last :
                    /\ DaysOf(p) = {} => IsNaN(result[p])
                    /\ DaysOf(p) # {} =>
                        /\ ~IsNaN(result[p])
                        /\ LongestRunWithin(Val(result[p]), DaysOf(p))

(* A period without timestamps lies between two periods with frost days *)
C15_Witness ==
    /\ call.name = "CFD2"
    /\ \E p, q, r \in DOMAIN result :
        /\ p < q /\ q < r
        /\ DaysOf(q) = {}
        /\ IsNaN(result[q])
        /\ ~IsNaN(result[p]) /\ Val(result[p]) >= 1
        /\ ~IsNaN(result[r]) /\ Val(result[r]) >= 2

----------------------------------------------------------------------------
(* C17: every spatial point is processed independently (CFD, CFD2,       *)
(* percentile_doy): the output at a point is a function of that point's  *)
(* series only, whatever the series at the other points are.             *)
RerunGrid(grid) ==
    IF call.name = "CFD" THEN CFD_grid(grid, call.freq)
    ELSE IF call.name = "CFD2" THEN CFD2_grid(grid, call.freq)
    ELSE percentile_doy_grid(AsFloat(grid), call.window, call.per)

----------------------------------------------------------------------------
(* C19: first_run_end_position(window) returns the index at which the    *)
(* first run of length >= window ends and last_run_start_position(window) *)
(* the index at which the last such run starts; when no run qualifies    *)
(* both return the not-found sentinel, a missing value, and no error is  *)
(* raised.  Indices are 0-based.                                         *)

(* The days on which a run of at least window frost days starts *)
QualifyingStarts ==
    {a \in RunStarts : \A j \in a..(a + call.window - 1) : j \in TrueDays}

(* The last day of the run that starts on day a *)
RunEndOf(a) == SetMax({b \in TrueDays : b >= a /\ \A j \in a..b : j \in TrueDays})

C19_RunPositions ==
    call.name = "run_length" =>
        /\ raised = ""
        /\ IF QualifyingStarts = {}
           THEN /\ IsNaN(result.first_run_end_position)
                /\ IsNaN(result.last_run_start_position)
           ELSE /\ result.first_run_end_position
                       = <<RunEndOf(SetMin(QualifyingStarts)) - 1>>
                /\ result.last_run_start_position = <<SetMax(QualifyingStarts) - 1>>

(* A run shorter than window comes before the first qualifying run *)
C19_Witness ==
    /\ call.name = "run_length"
    /\ call.window >= 2
    /\ QualifyingStarts # {}
    /\ \E a \in RunStarts : a < SetMin(QualifyingStarts)
    /\ ~IsNaN(result.first_run_end_position)
    /\ Val(result.first_run_end_position) > Val(result.last_run_start_position)

----------------------------------------------------------------------------
(* C20: for each year GSL returns the number of days between the first    *)
(* occurrence of at least six consecutive days with mean temperature over *)
(* 5 degC and the first occurrence, after July 1st, of at least six       *)
(* consecutive days with mean temperature below 5 degC.  An occurrence is *)
(* dated, as in GSL, by the last of its six days (GSLRunDays here), and a *)
(* year without one of the two has no value.                              *)

(* The days of year y that end GSLRunDays consecutive days over 5 degC *)
WarmSpellEnds(y) ==
    {i \in DaysOf(y) : i >= GSLRunDays /\
        \A j \in (i - GSLRunDays + 1)..i : series[j] > GSLThresh}

(* The days of year y, from July on, that end GSLRunDays consecutive days *)
(* below 5 degC                                                           *)
ColdSpellEnds(y) ==
    {i \in DaysOf(y) : i >= GSLRunDays /\ month(i) >= July /\
        \A j \in (i - GSLRunDays + 1)..i : series[j] < GSLThresh}

C20_GrowingSeasonLength ==
    (call.name = "GSL" /\ \A i \in DOMAIN series : series[i] # GSLThresh) =>
        /\ DOMAIN result = AllPeriods
        /\ \A y \in DOMAIN result :
            IF WarmSpellEnds(y) = {} \/ ColdSpellEnds(y) = {}
            THEN IsNaN(result[y])
            ELSE result[y] = <<SetMin(ColdSpellEnds(y)) - SetMin(WarmSpellEnds(y))>>

----------------------------------------------------------------------------
(* C21: cooling_degree_days returns for each period the cooling degree    *)
(* days above the threshold: the sum over the period's days of the excess *)
(* of tas over K2C + thresh, a day at or below the threshold contributing *)
(* zero.  The excess is in hundredths of a kelvin, the result in kelvin.  *)
Excess(i) ==
    IF series[i] > K2C + 100 * call.thresh
    THEN series[i] - (K2C + 100 * call.thresh) ELSE 0

C21_CoolingDegreeDaysSumOfExcess ==
    call.name = "cooling_degree_days" =>
        /\ DOMAIN result = AllPeriods
        /\ \A p \in DOMAIN result :
            100 * result[p]
                = SeqSum([k \in 1..Cardinality(DaysOf(p)) |-> Excess(Kth(DaysOf(p), k))])

----------------------------------------------------------------------------
(* C22: TN10p(tasmin, p10, freq) returns for each period the number of   *)
(* days of that period whose tasmin is strictly below the p10 table      *)
(* entry of that day's own day-of-year.                                  *)
BelowOwnEntry(i) ==
    LET doy == ((t0 + i - 1) % YearLen) + 1
    IN  /\ doy \in DOMAIN call.p10
        /\ call.p10[doy] # NaN
        /\ series[i] < call.p10[doy][1]

C22_TN10pCountsDaysBelowOwnEntry ==
    call.name = "TN10p" =>
        /\ DOMAIN result = AllPeriods
        /\ \A p \in DOMAIN result :
            result[p] = Cardinality({i \in DaysOf(p) : BelowOwnEntry(i)})

(* The series does not start on the first day of a year, the entries of *)
(* odd and even days differ, and a period has a day below its entry and *)
(* a day that is not, one of them equal to its entry                    *)
C22_Witness ==
    /\ call.name = "TN10p"
    /\ t0 # 0
    /\ call.p10[1] # call.p10[2]
    /\ \E p \in DOMAIN result :
        /\ 0 < result[p] /\ result[p] < Cardinality(DaysOf(p))
        /\ \E i \in DaysOf(p) :
            LET doy == ((t0 + i - 1) % YearLen) + 1
            IN  doy \in DOMAIN call.p10 /\ call.p10[doy] = <<series[i]>>

----------------------------------------------------------------------------
(* C23: saturation_vapor_pressure accepts exactly the method labels its  *)
(* documentation lists ("dewpoint", "goffgratch46", "sonntag90",         *)
(* "tetens30", "wmo08" and the aliases GG46, SO90, TE30, WMO08): each of *)
(* them returns a result, any other label is rejected with a ValueError  *)
(* and no result.                                                        *)
DocumentedSVPMethods ==
    {"dewpoint", "goffgratch46", "sonntag90", "tetens30", "wmo08",
     "GG46", "SO90", "TE30", "WMO08"}

C23_DocumentedMethodsAccepted ==
    call.name = "saturation_vapor_pressure" =>
        IF call.method \in DocumentedSVPMethods
        THEN raised = "" /\ DOMAIN result = DOMAIN series
        ELSE raised = "ValueError" /\ result = <<>>

----------------------------------------------------------------------------
(* C24: specific_humidity called without an invalid_values argument      *)
(* applies the documented default "clip": every returned value q         *)
(* satisfies 0 <= q <= q_sat, where q_sat = w_sat / (1 + w_sat).         *)
C24_DefaultClips ==
    (/\ call.name = "specific_humidity"
     /\ call.invalid_values = None
     /\ raised = "") =>
        \A i \in DOMAIN result :
            LET e_sat == saturation_vapor_pressure(series, call.ice_thresh,
                                                   call.method).value[i].hPa
            IN  /\ RatLE(<<0, 1>>, result[i])
                /\ RatLE(result[i], q_sat(e_sat, call.ps))

----------------------------------------------------------------------------
(* C25: CFD and CFD2 differ only because CFD2 resamples before measuring *)
(* runs: for every tasmin series and frequency the two return the same   *)
(* value for a period, unless a frost run crosses a boundary of that     *)
(* period or touches the first or the last day of the series.  Stated    *)
(* for the series without a day at exactly K2C, on which the two masks   *)
(* (tasmin > K2C negated, tasmin < K2C) agree.                           *)

(* Two neighbouring frost days, one inside period p and one outside it *)
FrostRunCrosses(p) ==
    \E a \in DaysOf(p), b \in (DOMAIN series) \ DaysOf(p) :
        (b = a + 1 \/ a = b + 1) /\ Frost[a] /\ Frost[b]

FrostRunTouchesEnds == Frost[1] \/ Frost[Len(series)]

C25_CFDAgreesWithCFD2 ==
    (call.name = "CFD" /\ \A i \in DOMAIN series : series[i] # K2C) =>
        \A p \in DOMAIN result :
            (~FrostRunCrosses(p) /\ ~FrostRunTouchesEnds) =>
                result[p] = <<CFD2(series, call.freq).value[p]>>

----------------------------------------------------------------------------
(* C26: for every daily tasmin series without missing values and every   *)
(* period that contains at least one day, the value CFD returns for that *)
(* period is an integer between 0 and the number of days of that period  *)
(* inclusive: never negative, never missing.                             *)
C26_CFDValueInRange ==
    call.name = "CFD" =>
        \A p \in DOMAIN result :
            /\ ~IsNaN(result[p])
            /\ 0 <= Val(result[p])
            /\ Val(result[p]) <= Cardinality(DaysOf(p))

----------------------------------------------------------------------------
(* C27: for any boolean sequence and any window >= 1 the three run       *)
(* statistics are consistent: run_event_count(window) >= 1 if and only   *)
(* if longest_run >= window, if and only if run_day_count(window) >=     *)
(* window.                                                               *)
C27_RunStatisticsConsistent ==
    call.name = "run_length" =>
        /\ (result.run_event_count >= 1) <=> (result.longest_run >= call.window)
        /\ (result.longest_run >= call.window) <=> (result.run_day_count >= call.window)
        /\ (result.run_event_count = 0) <=> (result.run_day_count = 0)

(* A run shorter than window comes first and a qualifying run after it: *)
(* fewer days are counted than the sequence has True entries            *)
C27_Witness ==
    /\ call.name = "run_length"
    /\ call.window >= 2
    /\ result.run_event_count = 1
    /\ Len(result.runs) = 2
    /\ result.runs[1].len < call.window
    /\ result.run_day_count < Cardinality(TrueDays)

----------------------------------------------------------------------------
(* C28: per-day counting indices are conserved by resampling: for every  *)
(* tasmin series and every frequency, the sum over all periods of FD     *)
(* equals the number of days of the whole series with tasmin < K2C; no   *)
(* day is dropped or counted twice at a period boundary.                 *)
C28_FDSumConserved ==
    call.name = "FD" =>
        SumOver(result, DOMAIN result) = Cardinality({i \in DOMAIN series : series[i] < K2C})

(* Frost on the last day of a period and on the first day of the next, *)
(* and a day without frost in the series                               *)
C28_Witness ==
    /\ call.name = "FD"
    /\ \E i \in DOMAIN series :
        /\ (i + 1) \in DOMAIN series
        /\ PeriodOf(call.freq, i) # PeriodOf(call.freq, i + 1)
        /\ series[i] < K2C /\ series[i + 1] < K2C
    /\ \E j \in DOMAIN series : series[j] >= K2C
    /\ SumOver(result, DOMAIN result) >= 2

----------------------------------------------------------------------------
(* C29: with method "binary", snowfall_approximation and rain_approximation *)
(* split precipitation exactly: for every day snowfall + rain = pr, the     *)
(* precipitation is entirely solid when tas < thresh and entirely liquid    *)
(* otherwise (one of the two is pr, the other 0); any other method label    *)
(* raises ValueError in both.                                               *)
(* The sum of two floats that may be NaN *)
FloatAdd(a, b) == IF IsNaN(a) \/ IsNaN(b) THEN NaN ELSE <<Val(a) + Val(b)>>

SnowCalled == call.name \in {"snowfall_approximation", "rain_approximation"}

Snowfall ==
    IF call.name = "snowfall_approximation" THEN result
    ELSE snowfall_approximation(call.pr, series, call.thresh, call.method).value

Rain ==
    IF call.name = "rain_approximation" THEN result
    ELSE rain_approximation(call.pr, series, call.thresh, call.method).value

C29_BinarySplitsPrecipitation ==
    SnowCalled =>
        IF call.method = "binary"
        THEN /\ raised = ""
             /\ \A i \in DOMAIN series :
                 /\ FloatAdd(Snowfall[i], Rain[i]) = call.pr[i]
                 /\ IF series[i] < call.thresh
                    THEN Snowfall[i] = call.pr[i] /\ Rain[i] = <<0>>
                    ELSE Snowfall[i] = <<0>> /\ Rain[i] = call.pr[i]
        ELSE /\ raised = "ValueError"
             /\ snowfall_approximation(call.pr, series, call.thresh, call.method).raised
                    = "ValueError"
             /\ rain_approximation(call.pr, series, call.thresh, call.method).raised
                    = "ValueError"

(* On the days that have a precipitation value the split is exact, and a *)
(* missing value is the only departure: it stays missing in the snowfall *)
(* of a cold day and in the rain of every day.                           *)
SplitExactWherePrPresent ==
    (SnowCalled /\ call.method = "binary") =>
        \A i \in DOMAIN series :
            IF ~IsNaN(call.pr[i])
            THEN /\ FloatAdd(Snowfall[i], Rain[i]) = call.pr[i]
                 /\ IF series[i] < call.thresh
                    THEN Snowfall[i] = call.pr[i] /\ Rain[i] = <<0>>
                    ELSE Snowfall[i] = <<0>> /\ Rain[i] = call.pr[i]
            ELSE /\ IsNaN(Rain[i])
                 /\ Snowfall[i] = (IF series[i] < call.thresh THEN NaN ELSE <<0>>)

====
